---- MODULE Spec2Model ----
(***************************************************************************)
(* The poll()-driven IPC server of the "IPC From Scratch" post             *)
(* (src/unnamed/part_000): IPC_Server_Context, IPC_Server_init, and one    *)
(* cycle of the event loop (poll, accept, the #reverse read pass with its  *)
(* dispatch, the removed-clients cleanup), together with the kernel state  *)
(* the server observes (descriptors, socket buffers, the accept queue) and *)
(* the peers that drive it.                                                *)
(*                                                                         *)
(* Table slots are 0-based as in the source: slot s of a Small_Array is    *)
(* element s + 1 of the TLA+ sequence that models it.                      *)
(***************************************************************************)
EXTENDS Integers, Sequences, FiniteSets, TLC

(* ------------------------------ bounds -------------------------------- *)

\* MAX_CLIENTS: capacity of _clients (slot 0 included), of _removed_clients
\* and of _volume_subscribers.  The source names it without a value.
MaxClients == 3

\* BUF_SIZE: length of ctx._buf.  The source names it without a value.
BufSize == 6

\* Client descriptors the process can hold open at once (RLIMIT_NOFILE).
NumFds == 3

\* Connections that may wait in the listen queue.
MaxBacklog == 1

\* Bytes a socket's receive buffer holds.
MaxInbox == 6

\* Events the environment performs in one behaviour (connect, each write,
\* close, reset, the shutdown signal).
MaxEvents == 4

\* Largest volume value a peer asks for.
MaxVol == 1

\* Longest string of a Program message put under the codec.
MaxStr == 2

(* --------------------------- message codec ---------------------------- *)

\* Leading byte of an encoded Message: which variant of the union follows.
TagVolume == 1
TagProgram == 2

\* Volume.act and Program.act, in declaration order.
ActSet == 0
ActShift == 1
ActGet == 2
ActSubscribe == 3
ActAdd == 0
ActRemove == 1

\* The byte every character of a Program's string is modelled by, and a byte
\* that starts no encoding.
CharByte == 7
BadByte == 9

Volume(act, val) == [variant |-> "Volume", act |-> act, val |-> val]

\* A Program's string is modelled by its length.
Program(act, n) == [variant |-> "Program", act |-> act, val |-> n]

NoMsg == [variant |-> "None", act |-> 0, val |-> 0]

Min(a, b) == IF a < b THEN a ELSE b

Range(s) == {s[i] : i \in 1..Len(s)}

Take(s, n) == SubSeq(s, 1, Min(n, Len(s)))

Drop(s, n) == SubSeq(s, Min(n, Len(s)) + 1, Len(s))

IsPrefix(s, t) == Len(s) <= Len(t) /\ SubSeq(t, 1, Len(s)) = s

\* A marshaller that writes the fields of the struct in the wrong order.
EncodeValFirst(m) ==
  IF m.variant = "Volume"
  THEN <<TagVolume, m.val, m.act>>
  ELSE <<TagProgram, m.val, m.act>> \o [i \in 1..m.val |-> CharByte]

\* cbor.marshal: a self-delimiting encoding, variant tag first; a string is
\* its length followed by its characters.
Encode(m) ==
  IF m.variant = "Volume"
  THEN <<TagVolume, m.act, m.val>>
  ELSE <<TagProgram, m.act, m.val>> \o [i \in 1..m.val |-> CharByte]

\* An unmarshaller that takes bytes too few for a message for bad bytes.
DecodeShortIsBad(bytes) ==
  IF Len(bytes) >= 3 /\ bytes[1] = TagVolume /\ bytes[2] \in ActSet..ActSubscribe
  THEN [kind |-> "ok", msg |-> Volume(bytes[2], bytes[3]), consumed |-> 3]
  ELSE IF /\ Len(bytes) >= 3
          /\ bytes[1] = TagProgram
          /\ bytes[2] \in ActAdd..ActRemove
          /\ Len(bytes) >= 3 + bytes[3]
          /\ \A i \in 4..(3 + bytes[3]) : bytes[i] = CharByte
  THEN [kind |-> "ok", msg |-> Program(bytes[2], bytes[3]), consumed |-> 3 + bytes[3]]
  ELSE [kind |-> "malformed", msg |-> NoMsg, consumed |-> 0]

\* cbor.unmarshal of buf[:bytes_read]: decodes ONE value from the front of
\* the bytes; what follows that value is not looked at.
Decode(bytes) ==
  LET n == Len(bytes)
      incomplete == [kind |-> "incomplete", msg |-> NoMsg, consumed |-> 0]
      malformed == [kind |-> "malformed", msg |-> NoMsg, consumed |-> 0]
  IN IF n = 0 THEN incomplete
     ELSE IF bytes[1] = TagVolume
     THEN IF n >= 2 /\ bytes[2] \notin ActSet..ActSubscribe THEN malformed
          ELSE IF n < 3 THEN incomplete
          ELSE [kind |-> "ok", msg |-> Volume(bytes[2], bytes[3]), consumed |-> 3]
     ELSE IF bytes[1] = TagProgram
     THEN IF n >= 2 /\ bytes[2] \notin ActAdd..ActRemove THEN malformed
          ELSE IF n < 3 THEN incomplete
          ELSE IF \E i \in 4..Min(n, 3 + bytes[3]) : bytes[i] # CharByte THEN malformed
          ELSE IF n < 3 + bytes[3] THEN incomplete
          ELSE [kind |-> "ok", msg |-> Program(bytes[2], bytes[3]),
                consumed |-> 3 + bytes[3]]
     ELSE malformed

(* ------------------------------- state -------------------------------- *)

\* linux.Errno: no error.
NoErr == "NONE"

\* linux.Fd values: the listening socket, and the descriptors accept() can
\* return.
ServerFd == 3
ClientFds == (ServerFd + 1)..(ServerFd + NumFds)

VARIABLES
  state,        \* "Initializing" | "Running" | "InitFailed" | "Panicked" | "Exited"
  pc,           \* place in the cycle: "poll" | "accept" | "read" | "cleanup"
  clients,      \* ctx._clients: sequence of Poll_Fd [fd, revents]
  removed,      \* ctx._removed_clients
  subs,         \* ctx._volume_subscribers
  idx,          \* loop variable of the #reverse read pass
  vol,          \* mixd_ctx.vol
  should_exit,  \* mixd_ctx.should_exit
  fdOpen,       \* kernel: descriptor is open in the server process
  peer,         \* kernel: "none" | "alive" | "closed" | "reset", per descriptor
  inbox,        \* kernel: bytes received on the descriptor and not yet read
  rest,         \* peer: bytes of a message begun and not yet written
  outbox,       \* what the server has sent on the descriptor, in order
  backlog,      \* kernel: connections waiting in the listen queue
  sockPath,     \* filesystem: "absent" | "stale" | "live" | "bound" at SERVER_SOCKET
  owed,         \* history: messages the peer has written, not yet dispatched
  stray,        \* history: a dispatch was not of the oldest message owed
  wire,         \* history: how the peer has written so far: "idle" (nothing),
                \* "whole" (whole messages only), "lone_split" (one message, in
                \* two parts), "split", "garbled"
  dead,         \* history: descriptors a read has reported closed or failed
  after,        \* history: per descriptor, the connections that had written a
                \* Subscribe when its peer wrote its latest Set
  taken,        \* per descriptor, for each message of outbox, how many of its
                \* bytes the kernel took from linux.send
  failed,       \* the open descriptors on which a linux.send has failed
                \* because the peer had gone
  boot,         \* history: [bind, listen], what linux.bind and linux.listen
                \* returned to IPC_Server_init
  codec,        \* the codec on its own: [step, msg, bytes, res], a message
                \* marshalled, its bytes, and what unmarshalling them gave
  ev,           \* history: what the server's last step did
  budget        \* environment events left

server == <<state, pc, clients, removed, subs, idx, vol>>
kernel == <<fdOpen, peer, inbox, outbox, backlog, sockPath>>
history == <<owed, stray, wire, dead, after, ev>>
vars == <<state, pc, clients, removed, subs, idx, vol, should_exit,
          fdOpen, peer, inbox, rest, outbox, backlog, sockPath,
          owed, stray, wire, dead, after, taken, failed, boot, codec, ev, budget>>

\* kind: what the step did; fd: the descriptor it was about; to: the
\* descriptors IPC_Server_send was called for; msg: the message dispatched;
\* rm: the descriptors appended to _removed_clients; was: the subscriber
\* list as the dispatch found it; path: what IPC_Server_init found at
\* SERVER_SOCKET.
Event(kind, fd, to, msg, rm) ==
  [kind |-> kind, fd |-> fd, to |-> to, msg |-> msg, rm |-> rm, was |-> <<>>,
   path |-> "none"]

\* No message is under the codec.
NoResult == [kind |-> "none", msg |-> NoMsg, consumed |-> 0]
CodecIdle == [step |-> "idle", msg |-> NoMsg, bytes |-> <<>>, res |-> NoResult]

\* The state before IPC_Server_init runs, with b environment events to come.
InitWith(b) ==
  /\ state = "Initializing"
  /\ pc = "poll"
  /\ clients = <<>>
  /\ removed = <<>>
  /\ subs = <<>>
  /\ idx = 0
  /\ vol = 0
  /\ should_exit = FALSE
  /\ fdOpen = [f \in ClientFds |-> FALSE]
  /\ peer = [f \in ClientFds |-> "none"]
  /\ inbox = [f \in ClientFds |-> <<>>]
  /\ rest = [f \in ClientFds |-> <<>>]
  /\ outbox = [f \in ClientFds |-> <<>>]
  /\ taken = [f \in ClientFds |-> <<>>]
  /\ failed = {}
  /\ backlog = 0
  /\ sockPath \in {"absent", "stale", "live"}
  /\ owed = [f \in ClientFds |-> <<>>]
  /\ stray = [f \in ClientFds |-> FALSE]
  /\ wire = [f \in ClientFds |-> "idle"]
  /\ dead = {}
  /\ after = [f \in ClientFds |-> {}]
  /\ ev = Event("none", 0, <<>>, NoMsg, <<>>)
  /\ budget = b
  /\ codec = CodecIdle
  /\ boot = [bind |-> NoErr, listen |-> NoErr]

Init == InitWith(MaxEvents)

\* The same system with one more environment event.
InitLong == InitWith(MaxEvents + 1)

(* --------------------------- small_array ------------------------------ *)

\* sa.append: silently does nothing when the array is full.
SaAppend(a, x) == IF Len(a) < MaxClients THEN Append(a, x) ELSE a

\* A Small_Array while a pointer into its storage is live: the storage keeps
\* what lies beyond len.
Arr(a) == [data |-> a, len |-> Len(a), ok |-> TRUE]

\* An unordered_remove handed the index into the [1:] slice, idx, where the
\* index into the table, idx + 1, is due.
UnorderedRemoveSliceIndex(t, index) ==
  IF ~t.ok \/ index - 1 < 0 \/ index - 1 >= t.len
  THEN [t EXCEPT !.ok = FALSE]
  ELSE [data |-> [t.data EXCEPT ![index] = t.data[t.len]],
        len |-> t.len - 1,
        ok |-> TRUE]

\* sa.unordered_remove(&a, index): bounds-checked; the last element is copied
\* over the removed one and len shrinks.  The storage beyond len is kept.
UnorderedRemove(t, index) ==
  IF ~t.ok \/ index < 0 \/ index >= t.len
  THEN [t EXCEPT !.ok = FALSE]
  ELSE [data |-> [t.data EXCEPT ![index + 1] = t.data[t.len]],
        len |-> t.len - 1,
        ok |-> TRUE]

(* ------------------------------ kernel -------------------------------- *)

\* linux.read(fd, ctx._buf[:]): up to BUF_SIZE of the bytes waiting; (0, nil)
\* at end of stream; (0, errno) on an error (errno_unwrap yields the zero
\* value beside an error).
SysRead(f) ==
  IF ~fdOpen[f] THEN [n |-> 0, err |-> "EBADF", data |-> <<>>]
  ELSE IF inbox[f] # <<>>
  THEN [n |-> Min(Len(inbox[f]), BufSize), err |-> NoErr,
        data |-> Take(inbox[f], BufSize)]
  ELSE IF peer[f] = "closed" THEN [n |-> 0, err |-> NoErr, data |-> <<>>]
  ELSE IF peer[f] = "reset" THEN [n |-> 0, err |-> "ECONNRESET", data |-> <<>>]
  ELSE [n |-> 0, err |-> "EAGAIN", data |-> <<>>]

\* What poll() reports as .IN for a descriptor of the set: a closed
\* descriptor reports NVAL only.
Readable(f) ==
  IF f = ServerFd THEN backlog > 0
  ELSE fdOpen[f] /\ (inbox[f] # <<>> \/ peer[f] \in {"closed", "reset"})

\* The descriptor accept() returns: the lowest one not open.
FreeFds == {f \in ClientFds : ~fdOpen[f]}
LowestFree == CHOOSE f \in FreeFds : \A g \in FreeFds : f <= g

(* ------------------------------- init --------------------------------- *)

\* A start that leaves whatever is at SERVER_SOCKET where it is.
UnlinkSkipped(path) == path

\* linux.unlink(SERVER_SOCKET): the file at the path, if any, is gone.  The
\* result of the call is not looked at.
Unlink(path) == "absent"

\* What linux.bind may return with the path in the given state: EADDRINUSE
\* when a file is there; otherwise success, or an error of the environment.
BindErrors(path) == IF path = "absent" THEN {NoErr, "EACCES"} ELSE {"EADDRINUSE"}

\* What linux.listen may return.
ListenErrors == {NoErr, "ENOMEM"}

\* An init that returns bind's Errno only.
InitResultListenDropped(bind_err, listen_err) == bind_err

\* The Errno IPC_Server_init returns: bind's, through or_return, and
\* otherwise listen_err.
InitResult(bind_err, listen_err) == IF bind_err # NoErr THEN bind_err ELSE listen_err

\* The caller of IPC_Server_init: an Errno returned is a fatal abort, none
\* lets the event loop start.
AfterInit(err) == IF err = NoErr THEN "Running" ELSE "InitFailed"

\* IPC_Server_init: unlink, bind or_return, listen, append slot 0, return
\* listen_err.
IPC_Server_init ==
  /\ state = "Initializing"
  /\ \E bind_err \in BindErrors(Unlink(sockPath)), listen_err \in ListenErrors :
       LET err == InitResult(bind_err, listen_err)
       IN /\ state' = AfterInit(err)
          /\ boot' = [boot EXCEPT !.bind = bind_err,
                                   !.listen = IF bind_err = NoErr THEN listen_err ELSE NoErr]
          /\ IF bind_err # NoErr
             THEN /\ sockPath' = Unlink(sockPath)
                  /\ clients' = clients
             ELSE /\ sockPath' = "bound"
                  /\ clients' = SaAppend(clients, [fd |-> ServerFd, revents |-> FALSE])
  /\ pc' = "poll"
  /\ ev' = [Event("init", ServerFd, <<>>, NoMsg, <<>>) EXCEPT !.path = sockPath]
  /\ UNCHANGED <<removed, subs, idx, vol, should_exit, fdOpen, peer, inbox, rest,
                 outbox, backlog, owed, stray, wire, dead, after, budget>>
  /\ UNCHANGED <<codec, taken, failed>>

(* ------------------------------- cycle -------------------------------- *)

\* linux.poll(sa.slice(&ctx._clients), 5) returning without error: revents
\* of every entry is rewritten.  One descriptor may be reported readable
\* although a read would block.
Poll ==
  /\ state = "Running"
  /\ pc = "poll"
  /\ \E spur \in {0} \cup {f \in ClientFds : fdOpen[f] /\ ~Readable(f)} :
       clients' = [i \in 1..Len(clients) |->
                     [clients[i] EXCEPT
                        !.revents = Readable(clients[i].fd) \/ clients[i].fd = spur]]
  /\ pc' = "accept"
  /\ ev' = Event("poll", 0, <<>>, NoMsg, <<>>)
  /\ UNCHANGED <<state, removed, subs, idx, vol, should_exit, fdOpen, peer, inbox,
                 rest, outbox, backlog, sockPath, owed, stray, wire, dead, after, budget>>
  /\ UNCHANGED <<codec, boot, taken, failed>>

\* poll_err != nil: return when should_exit is set, log.panicf otherwise.
PollError ==
  /\ state = "Running"
  /\ pc = "poll"
  /\ state' = IF should_exit THEN "Exited" ELSE "Panicked"
  /\ ev' = Event("poll_err", 0, <<>>, NoMsg, <<>>)
  /\ UNCHANGED <<pc, clients, removed, subs, idx, vol, should_exit, fdOpen, peer,
                 inbox, rest, outbox, backlog, sockPath, owed, stray, wire,
                 dead, after, budget>>
  /\ UNCHANGED <<codec, boot, taken, failed>>

\* Entering the read pass: #reverse over sa.slice(&ctx._clients)[1:], the
\* slice taken once, idx running from its last index down to 0.
EnterReadPass(table) ==
  /\ idx' = Len(table) - 2
  /\ pc' = IF Len(table) - 2 >= 0 THEN "read" ELSE "cleanup"

\* The listening socket is not readable: no accept this cycle.
AcceptSkip ==
  /\ state = "Running"
  /\ pc = "accept"
  /\ ~clients[1].revents
  /\ EnterReadPass(clients)
  /\ ev' = Event("accept_skip", 0, <<>>, NoMsg, <<>>)
  /\ UNCHANGED <<state, clients, removed, subs, vol, should_exit, fdOpen, peer,
                 inbox, rest, outbox, backlog, sockPath, owed, stray, wire,
                 dead, after, budget>>
  /\ UNCHANGED <<codec, boot, taken, failed>>

\* linux.accept succeeds; sa.append of the new Poll_Fd (revents empty).  When
\* the table is full the append does nothing and the descriptor stays open.
AcceptOk ==
  /\ state = "Running"
  /\ pc = "accept"
  /\ clients[1].revents
  /\ backlog > 0
  /\ FreeFds # {}
  /\ LET f == LowestFree
         table == SaAppend(clients, [fd |-> f, revents |-> FALSE])
     IN /\ clients' = table
        /\ fdOpen' = [fdOpen EXCEPT ![f] = TRUE]
        /\ peer' = [peer EXCEPT ![f] = "alive"]
        /\ backlog' = backlog - 1
        /\ EnterReadPass(table)
        /\ ev' = Event(IF Len(clients) < MaxClients THEN "accept" ELSE "accept_full",
                       f, <<>>, NoMsg, <<>>)
  /\ UNCHANGED <<state, removed, subs, vol, should_exit, inbox, rest, outbox,
                 sockPath, owed, stray, wire, dead, after, budget>>
  /\ UNCHANGED <<codec, boot, taken, failed>>

\* client_err != nil: log.panicf.  accept() fails with EMFILE when no
\* descriptor is left, and may fail at any time for a reason outside the
\* process (ENFILE, ENOMEM, ECONNABORTED).
AcceptError ==
  /\ state = "Running"
  /\ pc = "accept"
  /\ clients[1].revents
  /\ state' = "Panicked"
  /\ ev' = Event("accept_err", 0, <<>>, NoMsg, <<>>)
  /\ UNCHANGED <<pc, clients, removed, subs, idx, vol, should_exit, fdOpen, peer,
                 inbox, rest, outbox, backlog, sockPath, owed, stray, wire,
                 dead, after, budget>>
  /\ UNCHANGED <<codec, boot, taken, failed>>

(* ------------------------------ dispatch ------------------------------ *)

\* linux.send on a descriptor accepted with {.NONBLOCK}: the kernel takes as
\* many of the bytes as the peer's receive buffer has room for, from none
\* (EAGAIN) to all of them, and returns the count.
SysSend(bytes) == 0..Len(bytes)

\* The descriptors of a fan-out on which linux.send fails with EPIPE or
\* ECONNRESET: they are open and their peer has gone.  SIGPIPE is handled
\* (IPC_Server__handle_sigpipe), so the process lives and send returns the
\* Errno.
SendFailures(to) == {a \in Range(to) : fdOpen[a] /\ peer[a] \in {"closed", "reset"}}

\* The bytes the server holds back for a later send on descriptor f.
\* IPC_Server_Context has no field for them, bytes_sent is not looked at, and
\* every Poll_Fd asks for {.IN} only.
Pending(f) == <<>>

\* The counts of the sends that took outbox to ob, the kernel having taken
\* cnt[g] bytes of the message sent to descriptor g.
Taken(ob, cnt) ==
  [g \in ClientFds |->
     IF Len(ob[g]) > Len(outbox[g])
     THEN taken[g] \o [i \in 1..(Len(ob[g]) - Len(outbox[g])) |->
                         Min(cnt[g], Len(Encode(ob[g][Len(outbox[g]) + i])))]
     ELSE taken[g]]

\* IPC_Server_send(ctx, client_fd, msg), the wrapper of cbor.marshal and
\* linux.send: the message is written to the descriptor at once; it reaches
\* the peer when the connection is up.
IPC_Server_send(ob, f, m) ==
  IF fdOpen[f] /\ peer[f] = "alive" THEN [ob EXCEPT ![f] = Append(@, m)] ELSE ob

\* for client_fd in sa.slice(&ctx._volume_subscribers) { IPC_Server_send }
RECURSIVE FanOut(_, _, _)
FanOut(ob, ss, m) ==
  IF ss = <<>> THEN ob
  ELSE FanOut(IPC_Server_send(ob, Head(ss), m), Tail(ss), m)

\* A Subscribe handled without the search: the descriptor is appended again.
SubscribeAlways(ss, f) == SaAppend(ss, f)

\* case .Subscribe: linear_search, then append when not found.
Subscribe(ss, f) == IF f \in Range(ss) THEN ss ELSE SaAppend(ss, f)

\* A volume update whose loop starts one subscriber late.
UpdateVolumeSkipFirst(f, v) ==
  [subs |-> subs, vol |-> v,
   outbox |-> FanOut(outbox, Drop(subs, 1), Volume(ActGet, v)),
   to |-> Drop(subs, 1)]

\* A volume update: the new value is stored and sent to every subscriber.
UpdateVolume(f, v) ==
  [subs |-> subs, vol |-> v, outbox |-> FanOut(outbox, subs, Volume(ActGet, v)),
   to |-> subs]

\* A dispatch that handles Subscribe and nothing else: no reply, no fan-out.
DispatchSubscribeOnly(f, m) ==
  LET same == [subs |-> subs, vol |-> vol, outbox |-> outbox, to |-> <<>>]
  IN IF m.variant = "Volume" /\ m.act = ActSubscribe
     THEN [same EXCEPT !.subs = IF f \in Range(subs) THEN subs ELSE SaAppend(subs, f)]
     ELSE same

\* switch msg in msg: the effect of one decoded message from descriptor f.
Dispatch(f, m) ==
  LET same == [subs |-> subs, vol |-> vol, outbox |-> outbox, to |-> <<>>]
  IN IF m.variant = "Volume"
     THEN CASE m.act = ActSubscribe -> [same EXCEPT !.subs = Subscribe(subs, f)]
            [] m.act = ActSet -> UpdateVolume(f, m.val)
            [] m.act = ActShift -> UpdateVolume(f, vol + m.val)
            [] m.act = ActGet ->
                 [same EXCEPT !.outbox = IPC_Server_send(outbox, f, Volume(ActGet, vol)),
                              !.to = <<f>>]
            [] OTHER -> same
     ELSE same

(* ------------------------------ read pass ----------------------------- *)

\* A read pass that takes no Errno for would-block.
WouldBlockNever(err) == FALSE

\* read_err == .EWOULDBLOCK || read_err == .EAGAIN
WouldBlock(err) == err \in {"EWOULDBLOCK", "EAGAIN"}

\* The message dispatched is the oldest one its peer wrote that is still
\* undispatched.
Matches(f, m) == owed[f] # <<>> /\ Head(owed[f]) = m

NextClient ==
  /\ idx' = idx - 1
  /\ pc' = IF idx - 1 >= 0 THEN "read" ELSE "cleanup"

\* client.revents does not hold .IN: nothing is read.
ReadSkip ==
  /\ state = "Running"
  /\ pc = "read"
  /\ ~clients[idx + 2].revents
  /\ NextClient
  /\ ev' = Event("skip", clients[idx + 2].fd, <<>>, NoMsg, <<>>)
  /\ UNCHANGED <<state, clients, removed, subs, vol, should_exit, fdOpen, peer,
                 inbox, rest, outbox, backlog, sockPath, owed, stray, wire,
                 dead, after, budget>>
  /\ UNCHANGED <<codec, boot, taken, failed>>

\* One iteration of the read pass on a readable client.  `client` points at
\* slot idx + 1 of the table's storage, so client.fd read after an
\* unordered_remove of that slot is the descriptor of the element moved in.
ReadClient ==
  /\ state = "Running"
  /\ pc = "read"
  /\ clients[idx + 2].revents
  /\ LET slot == idx + 1
         f == clients[slot + 1].fd
         r == SysRead(f)
     IN /\ inbox' = IF fdOpen[f] THEN [inbox EXCEPT ![f] = Drop(@, r.n)] ELSE inbox
        /\ IF WouldBlock(r.err)
           THEN \* do continue
                /\ NextClient
                /\ ev' = Event("wouldblock", f, <<>>, NoMsg, <<>>)
                /\ UNCHANGED <<state, clients, removed, subs, vol, outbox, owed, stray,
                               dead, taken, failed>>
           ELSE LET t0 == Arr(clients)
                    \* if bytes_read == 0 { unordered_remove; append client.fd }
                    t1 == IF r.n = 0 THEN UnorderedRemove(t0, slot) ELSE t0
                    rm1 == IF r.n = 0 THEN <<t1.data[slot + 1].fd>> ELSE <<>>
                    \* if read_err != nil { unordered_remove; append client.fd }
                    t2 == IF r.err # NoErr THEN UnorderedRemove(t1, slot) ELSE t1
                    rm2 == IF r.err # NoErr /\ t2.ok THEN <<t2.data[slot + 1].fd>> ELSE <<>>
                    rm == rm1 \o rm2
                    d == Decode(r.data)
                    out == Dispatch(f, d.msg)
                IN /\ clients' = SubSeq(t2.data, 1, t2.len)
                   /\ dead' = IF r.n = 0 THEN dead \cup {f} ELSE dead
                   /\ removed' = IF rm2 # <<>>
                                 THEN SaAppend(SaAppend(removed, rm1[1]), rm2[1])
                                 ELSE IF rm1 # <<>> THEN SaAppend(removed, rm1[1])
                                 ELSE removed
                   /\ IF ~t2.ok
                      THEN \* the bounds check of unordered_remove panics
                           /\ state' = "Panicked"
                           /\ ev' = Event("bounds_panic", f, <<>>, NoMsg, rm)
                           /\ UNCHANGED <<pc, idx, subs, vol, outbox, owed, stray, taken,
                                          failed>>
                      ELSE /\ state' = state
                           /\ NextClient
                           /\ IF d.kind = "ok"
                              THEN /\ subs' = out.subs
                                   /\ vol' = out.vol
                                   /\ outbox' = out.outbox
                                   /\ \E cnt \in [Range(out.to) -> SysSend(Encode(Volume(ActGet, out.vol)))] :
                                        taken' = Taken(out.outbox, cnt)
                                   /\ failed' = failed \cup SendFailures(out.to)
                                   /\ owed' = [owed EXCEPT ![f] = IF Matches(f, d.msg) THEN Tail(@) ELSE @]
                                   /\ stray' = [stray EXCEPT ![f] = @ \/ ~Matches(f, d.msg)]
                                   /\ ev' = [Event("dispatch", f, out.to, d.msg, rm) EXCEPT !.was = subs]
                              ELSE /\ ev' = Event(IF r.n = 0 THEN "gone" ELSE d.kind,
                                                  f, <<>>, NoMsg, rm)
                                   /\ UNCHANGED <<subs, vol, outbox, owed, stray, taken,
                                                  failed>>
  /\ UNCHANGED <<should_exit, fdOpen, peer, rest, backlog, sockPath, wire, after, budget>>
  /\ UNCHANGED <<codec, boot>>

(* ------------------------------ cleanup ------------------------------- *)

\* IPC_Server_remove_volume_subscriber(ctx, fd)
IPC_Server_remove_volume_subscriber(ss, f) == SelectSeq(ss, LAMBDA x : x # f)

\* A cleanup loop that closes the descriptors and leaves the subscriber list
\* as it is.
RemoveSubscribersSkipped(ss, fds) == ss

RECURSIVE RemoveSubscribers(_, _)
RemoveSubscribers(ss, fds) ==
  IF fds = <<>> THEN ss
  ELSE RemoveSubscribers(IPC_Server_remove_volume_subscriber(ss, Head(fds)), Tail(fds))

\* The list is emptied once its descriptors are released.
ClearRemoved(a) == <<>>

\* for fd in sa.slice(&ctx._removed_clients) { remove_volume_subscriber; close }
Cleanup ==
  /\ state = "Running"
  /\ pc = "cleanup"
  /\ LET shut == {f \in Range(removed) : fdOpen[f]}
         blank(fn, v) == [f \in ClientFds |-> IF f \in shut THEN v ELSE fn[f]]
     IN /\ subs' = RemoveSubscribers(subs, removed)
        /\ fdOpen' = blank(fdOpen, FALSE)
        /\ peer' = blank(peer, "none")
        /\ inbox' = blank(inbox, <<>>)
        /\ rest' = blank(rest, <<>>)
        /\ outbox' = blank(outbox, <<>>)
        /\ taken' = blank(taken, <<>>)
        /\ failed' = failed \ shut
        /\ owed' = blank(owed, <<>>)
        /\ stray' = blank(stray, FALSE)
        /\ wire' = blank(wire, "idle")
        /\ after' = blank(after, {})
        /\ dead' = dead \ shut
  /\ removed' = ClearRemoved(removed)
  /\ pc' = "poll"
  /\ ev' = Event("cleanup", 0, <<>>, NoMsg, removed)
  /\ UNCHANGED <<state, clients, idx, vol, should_exit, backlog, sockPath, budget>>
  /\ UNCHANGED <<codec, boot>>

(* ------------------------------- peers -------------------------------- *)

\* What a peer may write: the messages of the protocol, and a byte string
\* that is no message.
Requests ==
  {Volume(ActSubscribe, 0), Volume(ActGet, 0), Program(ActAdd, 1)}
    \cup {Volume(ActSet, v) : v \in 1..MaxVol}

Connected(f) == fdOpen[f] /\ peer[f] = "alive"

\* Peers and signals act while the server waits in poll().  What a peer does
\* inside a cycle the server sees exactly as if it had been done before the
\* poll (its descriptor was already readable) or after the cleanup (it was
\* not): revents is fixed by the poll, and a read takes whatever is there.
Waiting == state = "Running" /\ pc = "poll"

\* How a peer has written once it writes one more message, in two parts or
\* in one.
Written(w, parted) ==
  CASE w = "idle" -> IF parted THEN "lone_split" ELSE "whole"
    [] w = "whole" -> IF parted THEN "split" ELSE "whole"
    [] w = "lone_split" -> "split"
    [] OTHER -> w

\* The connections, still up, whose peer has written a Subscribe (whole
\* messages only): it is waiting to be read, or it has been dispatched.
HaveSubscribed ==
  {a \in ClientFds :
     /\ Connected(a)
     /\ wire[a] = "whole"
     /\ a \in Range(subs) \/ Volume(ActSubscribe, 0) \in Range(owed[a])}

\* connect() on SERVER_SOCKET: the connection waits in the listen queue.
PeerConnect ==
  /\ Waiting
  /\ budget > 0
  /\ backlog < MaxBacklog
  /\ backlog' = backlog + 1
  /\ budget' = budget - 1
  /\ UNCHANGED <<state, pc, clients, removed, subs, idx, vol, should_exit, fdOpen,
                 peer, inbox, rest, outbox, sockPath, owed, stray, wire, dead, after, ev>>
  /\ UNCHANGED <<codec, boot, taken, failed>>

\* send(): the first k bytes of an encoded message reach the server's
\* receive buffer now, what is left of it later.
PeerSend ==
  /\ Waiting
  /\ budget > 0
  /\ \E f \in ClientFds, m \in Requests :
       LET enc == Encode(m)
       IN /\ Connected(f)
          /\ rest[f] = <<>>
          /\ Len(inbox[f]) + Len(enc) <= MaxInbox
          /\ \E k \in 1..Len(enc) :
               /\ inbox' = [inbox EXCEPT ![f] = @ \o Take(enc, k)]
               /\ rest' = [rest EXCEPT ![f] = Drop(enc, k)]
               /\ wire' = [wire EXCEPT ![f] = Written(@, k < Len(enc))]
          /\ owed' = [owed EXCEPT ![f] = Append(@, m)]
          /\ after' = IF m.act = ActSet THEN [after EXCEPT ![f] = HaveSubscribed \ {f}]
                      ELSE after
  /\ budget' = budget - 1
  /\ UNCHANGED <<state, pc, clients, removed, subs, idx, vol, should_exit, fdOpen,
                 peer, outbox, backlog, sockPath, stray, dead, ev>>
  /\ UNCHANGED <<codec, boot, taken, failed>>

\* The remainder of a message written in two parts arrives.
PeerSendRest ==
  /\ Waiting
  /\ budget > 0
  /\ \E f \in ClientFds :
       /\ Connected(f)
       /\ rest[f] # <<>>
       /\ inbox' = [inbox EXCEPT ![f] = @ \o rest[f]]
       /\ rest' = [rest EXCEPT ![f] = <<>>]
  /\ budget' = budget - 1
  /\ UNCHANGED <<state, pc, clients, removed, subs, idx, vol, should_exit, fdOpen,
                 peer, outbox, backlog, sockPath, owed, stray, wire, dead, after, ev>>
  /\ UNCHANGED <<codec, boot, taken, failed>>

\* The peer writes bytes that are no message.
PeerGarbage ==
  /\ Waiting
  /\ budget > 0
  /\ \E f \in ClientFds :
       /\ Connected(f)
       /\ rest[f] = <<>>
       /\ Len(inbox[f]) + 1 <= MaxInbox
       /\ inbox' = [inbox EXCEPT ![f] = Append(@, BadByte)]
       /\ wire' = [wire EXCEPT ![f] = "garbled"]
  /\ budget' = budget - 1
  /\ UNCHANGED <<state, pc, clients, removed, subs, idx, vol, should_exit, fdOpen,
                 peer, rest, outbox, backlog, sockPath, owed, stray, dead, after, ev>>
  /\ UNCHANGED <<codec, boot, taken, failed>>

\* close() by the peer: the server reads end of stream once the buffer is
\* drained.
PeerClose ==
  /\ Waiting
  /\ budget > 0
  /\ \E f \in ClientFds :
       /\ Connected(f)
       /\ peer' = [peer EXCEPT ![f] = "closed"]
       /\ rest' = [rest EXCEPT ![f] = <<>>]
  /\ budget' = budget - 1
  /\ UNCHANGED <<state, pc, clients, removed, subs, idx, vol, should_exit, fdOpen,
                 inbox, outbox, backlog, sockPath, owed, stray, wire, dead, after, ev>>
  /\ UNCHANGED <<codec, boot, taken, failed>>

\* The connection breaks: the next read fails with ECONNRESET.
PeerReset ==
  /\ Waiting
  /\ budget > 0
  /\ \E f \in ClientFds :
       /\ Connected(f)
       /\ peer' = [peer EXCEPT ![f] = "reset"]
       /\ inbox' = [inbox EXCEPT ![f] = <<>>]
       /\ rest' = [rest EXCEPT ![f] = <<>>]
  /\ budget' = budget - 1
  /\ UNCHANGED <<state, pc, clients, removed, subs, idx, vol, should_exit, fdOpen,
                 outbox, backlog, sockPath, owed, stray, wire, dead, after, ev>>
  /\ UNCHANGED <<codec, boot, taken, failed>>

\* The external shutdown request: should_exit is set.
RequestShutdown ==
  /\ Waiting
  /\ budget > 0
  /\ ~should_exit
  /\ should_exit' = TRUE
  /\ budget' = budget - 1
  /\ UNCHANGED <<state, pc, clients, removed, subs, idx, vol, fdOpen, peer, inbox,
                 rest, outbox, backlog, sockPath, owed, stray, wire, dead, after, ev>>
  /\ UNCHANGED <<codec, boot, taken, failed>>

(* ------------------------- the codec on its own ----------------------- *)

\* Every variable but codec.
system == <<state, pc, clients, removed, subs, idx, vol, should_exit,
            fdOpen, peer, inbox, rest, outbox, backlog, sockPath,
            owed, stray, wire, dead, after, taken, failed, boot, ev, budget>>

\* Each Volume action with a value, each Program action with a string.
ValidMessages ==
  {Volume(a, v) : a \in ActSet..ActSubscribe, v \in 0..MaxVol}
    \cup {Program(a, n) : a \in ActAdd..ActRemove, n \in 0..MaxStr}

\* message, encoding_err := cbor.marshal(msg)
CodecMarshal ==
  /\ codec.step = "idle"
  /\ \E m \in ValidMessages :
       codec' = [step |-> "marshalled", msg |-> m, bytes |-> Encode(m), res |-> NoResult]
  /\ UNCHANGED system

\* Only the first k bytes of the encoding have arrived.
CodecTruncate ==
  /\ codec.step = "marshalled"
  /\ codec.res = NoResult
  /\ \E k \in 0..(Len(codec.bytes) - 1) :
       codec' = [codec EXCEPT !.step = "truncated", !.bytes = Take(@, k)]
  /\ UNCHANGED system

\* The variant tag or the action of the encoding is overwritten by a byte
\* that is neither.
CodecCorrupt ==
  /\ codec.step = "marshalled"
  /\ codec.res = NoResult
  /\ \E i \in 1..2 :
       codec' = [codec EXCEPT !.step = "corrupted", !.bytes[i] = BadByte]
  /\ UNCHANGED system

\* msg_err := cbor.unmarshal(string(buf[:bytes_read]), &msg)
CodecUnmarshal ==
  /\ codec.step # "idle"
  /\ codec.res = NoResult
  /\ codec' = [codec EXCEPT !.res = Decode(codec.bytes)]
  /\ UNCHANGED system

NextCodec ==
  \/ CodecMarshal
  \/ CodecTruncate
  \/ CodecCorrupt
  \/ CodecUnmarshal

InitCodec == InitWith(0)

SpecCodec == InitCodec /\ [][NextCodec]_vars

(* ---------------------------- specification --------------------------- *)

Next ==
  \/ IPC_Server_init
  \/ Poll
  \/ PollError
  \/ AcceptSkip
  \/ AcceptOk
  \/ AcceptError
  \/ ReadSkip
  \/ ReadClient
  \/ Cleanup
  \/ PeerConnect
  \/ PeerSend
  \/ PeerSendRest
  \/ PeerGarbage
  \/ PeerClose
  \/ PeerReset
  \/ RequestShutdown

Spec == Init /\ [][Next]_vars

SpecLong == InitLong /\ [][Next]_vars

\* A server that has been running for a while.  Descriptor 4 subscribed and
\* was in slot 1 with descriptor 5 in slot 2 when its socket was reset: the
\* read in slot 1 ran both removals, the cleanup loop closed 5 twice, and 4
\* has left the table but is still open and still a subscriber.  Spec
\* reaches this state with its last environment event; here the environment
\* goes on from it.
LeakedStart ==
  /\ state = "Running"
  /\ pc = "poll"
  /\ clients = <<[fd |-> ServerFd, revents |-> FALSE]>>
  /\ removed = <<>>
  /\ subs = <<4>>
  /\ idx = -1
  /\ vol = 0
  /\ should_exit = FALSE
  /\ fdOpen = [f \in ClientFds |-> f = 4]
  /\ peer = [f \in ClientFds |-> IF f = 4 THEN "reset" ELSE "none"]
  /\ inbox = [f \in ClientFds |-> <<>>]
  /\ rest = [f \in ClientFds |-> <<>>]
  /\ outbox = [f \in ClientFds |-> <<>>]
  /\ taken = [f \in ClientFds |-> <<>>]
  /\ failed = {}
  /\ backlog = 0
  /\ sockPath = "bound"
  /\ owed = [f \in ClientFds |-> <<>>]
  /\ stray = [f \in ClientFds |-> FALSE]
  /\ wire = [f \in ClientFds |-> IF f = 4 THEN "whole" ELSE "idle"]
  /\ dead = {4}
  /\ after = [f \in ClientFds |-> {}]
  /\ ev = [Event("cleanup", 0, <<>>, NoMsg, <<5, 5>>) EXCEPT !.path = "none"]
  /\ budget = MaxEvents
  /\ codec = CodecIdle
  /\ boot = [bind |-> NoErr, listen |-> NoErr]

InitLeaked == Init \/ LeakedStart

SpecLeaked == InitLeaked /\ [][Next]_vars

TypeOK ==
  /\ state \in {"Initializing", "Running", "InitFailed", "Panicked", "Exited"}
  /\ pc \in {"poll", "accept", "read", "cleanup"}
  /\ Len(clients) <= MaxClients
  /\ Len(removed) <= MaxClients
  /\ Len(subs) <= MaxClients
  /\ budget \in 0..(MaxEvents + 1)
  /\ idx \in -1..(MaxClients - 2)
  /\ vol \in Nat
  /\ dead \subseteq ClientFds
  /\ ev.path \in {"none", "absent", "stale", "live"}
  /\ boot.bind \in BindErrors("absent") /\ boot.listen \in ListenErrors
  /\ \A f \in ClientFds :
       /\ wire[f] \in {"idle", "whole", "lone_split", "split", "garbled"}
       /\ after[f] \subseteq ClientFds \ {f}
       /\ Len(inbox[f]) <= MaxInbox
       /\ ~fdOpen[f] => peer[f] = "none" /\ outbox[f] = <<>> /\ owed[f] = <<>>
       /\ Len(taken[f]) = Len(outbox[f])
  /\ failed \subseteq {f \in ClientFds : fdOpen[f]}

(* ---------------------------- properties ------------------------------ *)

\* The descriptors of the client slots of a table (slot 0 is the listening
\* socket).
TableFds(t) == {t[i].fd : i \in 2..Len(t)}

IsSet(m) == m.variant = "Volume" /\ m.act = ActSet

IsSubscribe(m) == m.variant = "Volume" /\ m.act = ActSubscribe

NoDuplicates(s) == \A i, j \in 1..Len(s) : s[i] = s[j] => i = j

\* The last message sent to a is the notification of volume v.
Notified(a, v) == outbox[a] # <<>> /\ outbox[a][Len(outbox[a])] = Volume(ActGet, v)

C1_Notifies ==
  (ev.kind = "dispatch" /\ IsSet(ev.msg)) =>
    /\ vol = ev.msg.val
    /\ \A a \in Range(ev.was) \ {ev.fd} :
         Connected(a) => a \in Range(ev.to) /\ Notified(a, ev.msg.val)

\* A step only adds to what a connection has been sent: what was sent
\* earlier stays first, in its order.
C1_KeepsOrder ==
  \A f \in ClientFds : (fdOpen[f] /\ fdOpen'[f]) => IsPrefix(outbox[f], outbox'[f])

C2_SubscribeIdempotent ==
  /\ NoDuplicates(subs)
  /\ ev.kind = "dispatch" => NoDuplicates(ev.to)
  /\ (ev.kind = "dispatch" /\ IsSubscribe(ev.msg) /\ ev.fd \in Range(ev.was))
       => subs = ev.was

\* A Subscribe has been dispatched from a connection that was in the list
\* already.
C2_Witness ==
  /\ ev.kind = "dispatch"
  /\ IsSubscribe(ev.msg)
  /\ ev.fd \in Range(ev.was)
  /\ subs = ev.was

\* C3: once a read has found a subscriber's connection closed, no fan-out
\* calls send for its descriptor, later in the same cycle included.
C3_NoSendToClosed ==
  (ev.kind = "dispatch" /\ IsSet(ev.msg)) => Range(ev.to) \cap dead = {}

\* C4: when the server is about to poll, the removed list is empty and every
\* descriptor the last cycle put on it is out of the table, out of the
\* subscriber list, and closed.
C4_RemovedReleased ==
  (Waiting /\ ev.kind = "cleanup") =>
    /\ removed = <<>>
    /\ \A f \in Range(ev.rm) :
         /\ f \notin TableFds(clients)
         /\ f \notin Range(subs)
         /\ ~fdOpen[f]

\* C5: when the server is about to poll, every descriptor of the subscriber
\* list is the descriptor of a client slot of the table.
C5_SubscribersInTable == Waiting => Range(subs) \subseteq TableFds(clients)

\* C6: a connection accepted while the table is full is closed at once and
\* stays out of the table, which is as full as before; the server stays
\* Running.
C6_FullTableRefuses ==
  ev.kind = "accept_full" =>
    /\ ~fdOpen[ev.fd]
    /\ ev.fd \notin TableFds(clients)
    /\ Len(clients) = MaxClients
    /\ state = "Running"

\* C7: after a failed accept the server is still Running.
C7_AcceptFailureSurvived == ev.kind = "accept_err" => state = "Running"

\* What one client can cause on its connection: end of stream or a reset
\* (each alone, or ending in the panic of the bounds check), bytes that are
\* no message.
ClientFaults == {"gone", "malformed", "bounds_panic"}

\* C8: a read that meets a close, a reset or a malformed message on one
\* connection leaves the server Running, schedules no descriptor for removal
\* but that connection's, and leaves every other connection in the table.
C8_Step ==
  ev'.kind \in ClientFaults =>
    /\ state' = "Running"
    /\ Range(ev'.rm) \subseteq {ev'.fd}
    /\ TableFds(clients) \ {ev'.fd} \subseteq TableFds(clients')

C8_OnlyThatConnection == [][C8_Step]_vars

\* C9: on a connection that is up and whose peer wrote whole messages only,
\* once every byte written has been read, every message written has been
\* dispatched, in the order written, and nothing else has.
C9_EveryMessageDispatched ==
  \A f \in ClientFds :
    (Connected(f) /\ wire[f] = "whole" /\ inbox[f] = <<>>)
      => owed[f] = <<>> /\ ~stray[f]

\* C10: on a connection that is up and whose peer wrote one message in two parts, once both
\* parts have been read the connection is still in the table and the message
\* has been dispatched, once, and nothing else has.
C10_PartialMessageKept ==
  \A f \in ClientFds :
    (Connected(f) /\ wire[f] = "lone_split" /\ rest[f] = <<>> /\ inbox[f] = <<>>)
      => f \in TableFds(clients) /\ owed[f] = <<>> /\ ~stray[f]

C13_MalformedTerminates ==
  (ev.kind = "malformed" /\ wire[ev.fd] = "garbled") =>
    /\ ev.msg = NoMsg
    /\ ev.to = <<>>
    /\ state = "Running"
    /\ Range(ev.rm) = {ev.fd}
    /\ ev.fd \notin TableFds(clients)

\* C14: from the moment the server runs, slot 0 of the table is the poll
\* entry of the listening socket, whatever has been accepted, removed or
\* cleaned up.
C14_SlotZeroListens ==
  state \in {"Running", "Panicked", "Exited"} =>
    Len(clients) >= 1 /\ clients[1].fd = ServerFd

\* A client has just been removed from a slot below the last one, the last
\* entry has moved into its place, and slot 0 is where it was.
C14_Witness ==
  /\ ev.kind = "gone"
  /\ Len(clients) >= 2
  /\ clients[1].fd = ServerFd
  /\ clients[2].fd # ev.fd

\* C15: the server's state only moves forward: out of Initializing into
\* Running (or into the abort of a failed start), out of Running only on a
\* shutdown request and then to the stop, and out of a final state never.
C15_Step ==
  /\ state = "Initializing" => state' \in {"Initializing", "Running", "InitFailed"}
  /\ (state = "Running" /\ state' # "Running") => should_exit /\ state' = "Exited"
  /\ state \in {"InitFailed", "Panicked", "Exited"} => state' = state

C15_OnlyForward == [][C15_Step]_vars

\* C16: once shutdown has been requested, the return of the next readiness
\* wait, with an error or without one, takes the server out of Running.
C16_Step ==
  (/\ should_exit
   /\ state = "Running"
   /\ pc = "poll"
   /\ pc' # pc \/ state' # state)
    => state' # "Running"

C16_ShutdownObserved == [][C16_Step]_vars

\* After a shutdown request the table gets no new entry.
C17_Step == should_exit => Len(clients') <= Len(clients)

\* The server has stopped: every client descriptor is closed and the
\* listening socket is released.
C17_Stopped ==
  state = "Exited" => (\A f \in ClientFds : ~fdOpen[f]) /\ sockPath # "bound"

\* C17: after a shutdown request no connection is added to the table, and
\* the server is stopped only with every client connection closed and the
\* listening socket released.
C17_Drained == []C17_Stopped /\ [][C17_Step]_vars

\* C18: when bind or listen has failed, the server has aborted: it is not
\* Running and never was, so it has called no readiness wait and holds no
\* client connection.
C18_FailedStartAborts ==
  (boot.bind # NoErr \/ boot.listen # NoErr) =>
    /\ state = "InitFailed"
    /\ ev.kind = "init"
    /\ \A f \in ClientFds : ~fdOpen[f]
    /\ TableFds(clients) = {}

\* listen has failed after a bind that went well, and the server has aborted
\* with the listening socket's entry already in slot 0.
C18_Witness ==
  /\ boot.bind = NoErr
  /\ boot.listen = "ENOMEM"
  /\ state = "InitFailed"
  /\ Len(clients) = 1

\* C19: a start that finds a stale socket file at the bind path does not
\* fail with address-in-use, and when nothing else fails the server is bound
\* and has been Running.
C19_StaleSocketCleared ==
  (ev.kind = "init" /\ ev.path = "stale") =>
    /\ boot.bind # "EADDRINUSE"
    /\ (boot.bind = NoErr /\ boot.listen = NoErr) =>
         state = "Running" /\ sockPath = "bound"

\* The server has started over a stale socket file and is Running, bound,
\* with the listening socket in slot 0.
C19_Witness ==
  /\ ev.kind = "init"
  /\ ev.path = "stale"
  /\ state = "Running"
  /\ sockPath = "bound"
  /\ Len(clients) = 1

\* The byte strings of a list, one after the other.
RECURSIVE Flat(_)
Flat(ss) == IF ss = <<>> THEN <<>> ELSE Head(ss) \o Flat(Tail(ss))

\* The bytes the server has passed to linux.send for descriptor f, in order.
Queued(f) == Flat([i \in 1..Len(outbox[f]) |-> Encode(outbox[f][i])])

\* The bytes that have reached the peer of descriptor f, in order.
Reached(f) ==
  Flat([i \in 1..Len(outbox[f]) |-> Take(Encode(outbox[f][i]), taken[f][i])])

\* C20: the bytes queued for a connection reach its peer in queue order with
\* no loss and no duplication: what has reached the peer, followed by what
\* the server still holds for the connection, is what was queued, so the
\* remainder of a partial write is the next thing the peer gets.
C20_WriteQueueInOrder ==
  \A f \in ClientFds : Connected(f) => Reached(f) \o Pending(f) = Queued(f)

\* The step is one iteration of the read pass that dispatched a message.
DispatchStep == state = "Running" /\ pc = "read" /\ idx' # idx /\ ev'.kind = "dispatch"

\* Every send is made by the read pass in the step that dispatches the
\* request it answers, and the dispatch of a Get from a connection that is up
\* sends the reply in that same step: no poll lies between the read of a
\* request and the attempt to send what it produced.
C21_Step ==
  /\ \A f \in ClientFds :
       Len(outbox'[f]) > Len(outbox[f]) => DispatchStep /\ f \in Range(ev'.to)
  /\ (DispatchStep /\ ev'.msg = Volume(ActGet, ev'.msg.val) /\ Connected(ev'.fd)) =>
       outbox'[ev'.fd] = Append(outbox[ev'.fd], Volume(ActGet, vol))
  /\ (DispatchStep /\ IsSet(ev'.msg)) =>
       \A a \in Range(subs) :
         Connected(a) => outbox'[a] = Append(outbox[a], Volume(ActGet, ev'.msg.val))

ReadStep ==
  /\ state = "Running"
  /\ pc = "read"
  /\ <<pc, idx, state>>' # <<pc, idx, state>>
  /\ clients[idx + 2].revents

\* A read that returns EWOULDBLOCK or EAGAIN changes nothing: the table, the
\* removed list, the subscriber list and the descriptors stay as they were
\* and the server goes on to the next client.
C22_Step ==
  (ReadStep /\ SysRead(clients[idx + 2].fd).err \in {"EWOULDBLOCK", "EAGAIN"}) =>
    /\ state' = "Running"
    /\ clients' = clients
    /\ removed' = removed
    /\ subs' = subs
    /\ fdOpen' = fdOpen
    /\ idx' = idx - 1

\* C22: a would-block result from read is not an error: the connection stays
\* in the table, is not put on the removed list, keeps its subscriptions and
\* is polled again with the rest of the table.
C22_WouldBlockIgnored == [][C22_Step]_vars

\* A read on a subscriber's connection has returned would-block, and the
\* connection is in the table and the subscriber list, and not on the
\* removed list.
C22_Witness ==
  /\ ev.kind = "wouldblock"
  /\ ev.fd \in TableFds(clients)
  /\ ev.fd \in Range(subs)
  /\ ev.fd \notin Range(removed)
  /\ fdOpen[ev.fd]

\* A send to a peer that has gone leaves the server Running, and the table
\* changes in steps of the event loop only.
C23_Step ==
  /\ (DispatchStep /\ failed' # failed) => state' = "Running"
  /\ clients' # clients => <<state, pc, idx>>' # <<state, pc, idx>>

\* A connection on which a send has failed has been removed by the time the
\* cycle's cleanup is done.
C23_WriteFaultReaped == (state = "Running" /\ pc = "poll") => failed = {}

\* C23: writing to a connection whose peer has gone does not end the server;
\* it is a write error of that connection, which is removed like any other
\* I/O fault, and the table changes only in the event loop's own steps.
C23_BrokenPipeHandled == []C23_WriteFaultReaped /\ [][C23_Step]_vars

\* C24: a connection is scheduled for removal at most once in a cycle, also
\* when one read reports both zero bytes and an error: one read appends at
\* most one descriptor to the removed list, its own, the list never holds a
\* descriptor twice, and the read that scheduled it dispatches nothing.
C24_ScheduledOnce ==
  /\ NoDuplicates(removed)
  /\ (ev.kind # "cleanup" /\ ev.rm # <<>>) =>
       /\ state = "Running"
       /\ ev.rm = <<ev.fd>>
       /\ ev.kind # "dispatch"
       /\ ev.fd \notin TableFds(clients)

\* The step is one iteration of the read pass, whatever revents holds.
PassStep == state = "Running" /\ pc = "read" /\ <<pc, idx, state>>' # <<pc, idx, state>>

\* The pass starts at the last entry of the table.
C25_Start ==
  (state = "Running" /\ pc = "accept" /\ pc' = "read") => idx' = Len(clients') - 2

\* An iteration on slot idx + 1 leaves the entries below it, which the pass
\* has yet to visit, where they are, and the pass goes on to the next one
\* down until slot 1 has been visited.
C25_Iteration ==
  PassStep =>
    /\ SubSeq(clients', 2, idx + 1) = SubSeq(clients, 2, idx + 1)
    /\ idx > 0 => state' = "Running" /\ pc' = "read" /\ idx' = idx - 1

\* C25: the read pass visits every client entry that is in the table when it
\* starts exactly once, whatever it removes on the way: no removal moves,
\* drops or repeats an entry the pass has yet to visit, or ends the pass.
C25_EachVisitedOnce == [][C25_Start /\ C25_Iteration]_vars

\* A read iteration that removes the connection it read from takes that
\* connection's entry out of the table and no other.
C26_Step ==
  (ReadStep /\ state' = "Running" /\ clients' # clients) =>
    /\ TableFds(clients') = TableFds(clients) \ {clients[idx + 2].fd}
    /\ Len(clients') = Len(clients) - 1

\* C26: removing one connection changes no other connection's membership:
\* after the removal the descriptors in the table are the ones before it
\* less the removed connection's, none other dropped and none duplicated.
C26_OthersKeepTheirPlace == [][C26_Step]_vars

C28_StartReached ==
  /\ budget = 0
  /\ <<state, pc, clients, removed, subs, idx, vol, should_exit, fdOpen, peer,
       inbox, rest, outbox, taken, failed, backlog, sockPath, owed, stray, wire,
       dead, after, ev, codec, boot>>
     = <<"Running", "poll", <<[fd |-> ServerFd, revents |-> FALSE]>>, <<>>, <<4>>,
         -1, 0, FALSE, [f \in ClientFds |-> f = 4],
         [f \in ClientFds |-> IF f = 4 THEN "reset" ELSE "none"],
         [f \in ClientFds |-> <<>>], [f \in ClientFds |-> <<>>],
         [f \in ClientFds |-> <<>>], [f \in ClientFds |-> <<>>], {}, 0, "bound",
         [f \in ClientFds |-> <<>>], [f \in ClientFds |-> FALSE],
         [f \in ClientFds |-> IF f = 4 THEN "whole" ELSE "idle"], {4},
         [f \in ClientFds |-> {}], Event("cleanup", 0, <<>>, NoMsg, <<5, 5>>),
         CodecIdle, [bind |-> NoErr, listen |-> NoErr]>>

\* C28: the removed list and the volume subscriber list never hold more
\* entries than the table can hold client connections, so no append to
\* either meets a full list.
C28_SideListsFit ==
  /\ Len(removed) <= MaxClients - 1
  /\ Len(subs) <= MaxClients - 1

====
